---- MODULE Spec2Model ----
(***************************************************************************)
(* Model of crossterm's terminal facade (src/crossterm_terminal/           *)
(* terminal.rs): struct Terminal { terminal: Option<Box<ITerminal>>,       *)
(* context: Context }, its constructor and its five forwarding methods.    *)
(*                                                                         *)
(* The facade is translated from terminal.rs.  The collaborators it calls  *)
(* (Context, get_module, AnsiTerminal, WinApiTerminal and the console they *)
(* act on) live in other files of the crate; they are modelled from the    *)
(* specification's description of them and are marked as such below.       *)
(***************************************************************************)
EXTENDS Integers, Sequences, FiniteSets, TLC

(***************************************************************************)
(* Bounds of the model.                                                    *)
(***************************************************************************)
\* Facade calls and external resizes in one run of a single Terminal.
MaxOps == 3
\* The same, in a run where the caller holds two Terminals.
MaxOpsShared == 1
\* Last line the top of the visible window can sit on (lines 0..BufferLines).
BufferLines == 4

(***************************************************************************)
(* Types of the facade's arguments.                                        *)
(***************************************************************************)
\* count, width and height are i16 (terminal.rs lines 102, 123, 144).
I16Min == -32768
I16Max == 32767

\* The Terminal instances a caller creates (terminal() / Terminal::new()).
Terminals == {"t1", "t2"}

\* enum ClearType of base_terminal, as the doc comment of clear lists it.
ClearTypes == {"All", "FromCursorDown", "FromCursorUp", "CurrentLine", "UntilNewLine"}

\* Scroll counts tried: negative, zero, positive.
Counts == {-1, 0, 2}

\* (width, height) requests tried: zero, an ordinary size, the i16 extremes.
Sizes == {<<0, 0>>, <<2, 3>>, <<I16Min, I16Max>>}

\* Smallest (width, height) the platform accepts.
MinSize == <<1, 2>>

\* What the construction-time probe can find on a platform with a native
\* console: whether the native backend can be built, and whether escape
\* sequences are preferred, merely available, or unavailable.
Probes == [native : BOOLEAN, ansi : {"preferred", "available", "unavailable"}]

VARIABLES
    callers,    \* the Terminal instances the caller creates in this run
    budget,     \* the number of calls the caller makes in this run
    platform,   \* cfg(target_os): "windows" or "other"
    console,    \* the console/tty the process is attached to
    terms,      \* terms[t]: the fields of Terminal t
    nctx,       \* number of Context values built so far
    built,      \* built[t]: the selector runs of Terminal t (their probe inputs)
    received,   \* received[t]: the calls t's backend has received, in order
    hist        \* the facade calls issued so far, in order, with their outcome

vars == <<callers, budget, platform, console, terms, nctx, built, received, hist>>

Max(a, b) == IF a >= b THEN a ELSE b

Last(s) == s[Len(s)]

(***************************************************************************)
(* Calls, as the caller issues them and as a backend receives them.        *)
(***************************************************************************)
Call(op, ct, x, y) == [op |-> op, ct |-> ct, x |-> x, y |-> y]

ClearCall(clear_type) == Call("clear", clear_type, 0, 0)

SizeCall == Call("terminal_size", "-", 0, 0)

ScrollUpCall(count) == Call("scroll_up", "-", count, 0)

ScrollDownCall(count) == Call("scroll_down", "-", count, 0)

SetSizeCall(width, height) == Call("set_size", "-", width, height)

\* The value a method with no result returns.
Unit == <<>>

(***************************************************************************)
(* Shared Context (crate root, not in terminal.rs): a cell that acquires   *)
(* its platform handle on first use and caches it.                         *)
(***************************************************************************)
\* Context::new(): nothing acquired yet.  id tells the Context values apart.
ContextNew(id) == [id |-> id, cached |-> FALSE, acquisitions |-> 0]

\* The context field of a Terminal that has not been constructed.
NoContext == ContextNew(0)

\* The lookup: the cached handle, or one acquisition that is then cached.
ContextLookup(context) ==
    IF context.cached
    THEN context
    ELSE [context EXCEPT !.cached = TRUE, !.acquisitions = @ + 1]

(***************************************************************************)
(* Backend constructors and the selector (shared::functions::get_module;   *)
(* not in terminal.rs).  A backend is named by its variant.                *)
(***************************************************************************)
AnsiTerminal_new == "Ansi"

WinApiTerminal_new == "WinApi"

\* get_module(winapi_impl, unix_impl, &mut context): the native backend
\* unless it cannot be built or escape sequences are preferred, then the
\* ANSI backend, and none when neither can be used.  The probe goes through
\* the context's handle; the native backend looks the handle up again.
get_module(winapi_impl, unix_impl, context, probe) ==
    LET probed == ContextLookup(context)
    IN  IF probe.native /\ probe.ansi # "preferred"
        THEN [term |-> winapi_impl, context |-> ContextLookup(probed)]
        ELSE IF probe.ansi # "unavailable"
             THEN [term |-> unix_impl, context |-> probed]
             ELSE [term |-> "None", context |-> probed]

(***************************************************************************)
(* The capability interface ITerminal as AnsiTerminal and WinApiTerminal   *)
(* implement it (not in terminal.rs), acting on the console.               *)
(***************************************************************************)
\* clear: the region named by clear_type is erased.
Backend_clear(backend, con, clear_type) ==
    [con EXCEPT !.erased = @ \cup {clear_type}]

\* terminal_size: the current dimensions, (0,0) when they cannot be read.
Backend_terminal_size(backend, con) ==
    IF con.queryOk THEN con.size ELSE <<0, 0>>

\* The visible window moves by d lines when the buffer has room for it.
Shift(con, d) ==
    IF con.top + d \in 0..BufferLines THEN [con EXCEPT !.top = @ + d] ELSE con

\* scroll_up / scroll_down: a negative count is a no-op for the escape
\* sequence backend and a scroll the other way for the native one.
Backend_scroll_up(backend, con, count) ==
    IF count < 0 /\ backend = "Ansi" THEN con ELSE Shift(con, 0 - count)

Backend_scroll_down(backend, con, count) ==
    IF count < 0 /\ backend = "Ansi" THEN con ELSE Shift(con, count)

\* set_size: the request, raised to the platform's minimum where it is less.
Backend_set_size(backend, con, width, height) ==
    [con EXCEPT !.size = <<Max(width, con.min[1]), Max(height, con.min[2])>>]

(***************************************************************************)
(* Initial state: no Terminal constructed yet.                             *)
(***************************************************************************)
InitSize == <<4, 5>>

NoTerminal == [live |-> FALSE, terminal |-> "None", context |-> NoContext]

InitWith(instances, calls) ==
    /\ callers = instances
    /\ budget = calls
    /\ platform \in {"windows", "other"}
    /\ console \in [size : {InitSize}, top : {2}, erased : {{}},
                    queryOk : BOOLEAN, min : {MinSize}]
    /\ terms = [t \in Terminals |-> NoTerminal]
    /\ nctx = 0
    /\ built = [t \in Terminals |-> <<>>]
    /\ received = [t \in Terminals |-> <<>>]
    /\ hist = <<>>

\* One Terminal, as every example of terminal.rs uses the module.
Init == InitWith({"t1"}, MaxOps)

\* Two Terminals side by side on the same console.
InitShared == InitWith(Terminals, MaxOpsShared)

(***************************************************************************)
(* Terminal::new (lines 24-34); terminal() (lines 170-173) boxes its       *)
(* result.                                                                 *)
(***************************************************************************)
\* The fields line 33 stores, and the record of how the backend was chosen.
Construct(t, terminal, context, how) ==
    /\ terms' = [terms EXCEPT ![t] = [live |-> TRUE, terminal |-> terminal,
                                      context |-> context]]
    /\ nctx' = context.id
    /\ built' = [built EXCEPT ![t] = Append(@, how)]
    /\ UNCHANGED <<callers, budget, platform, console, received, hist>>

\* Line 31: the backend is fixed by the build, with no probe.
CfgChoice == [by |-> "cfg", native |-> FALSE, ansi |-> "always"]

\* Faulty variants of Terminal::new, used to test the properties below.
\* The selector is run on every platform, the cfg lines ignored.
New_alwaysProbes(t) ==
    /\ t \in callers
    /\ ~terms[t].live
    /\ t = "t2" => terms["t1"].live
    /\ \E probe \in Probes :
          LET m == get_module(WinApiTerminal_new, AnsiTerminal_new,
                              ContextNew(nctx + 1), probe)
          IN  Construct(t, m.term, m.context,
                        [by |-> "get_module", native |-> probe.native,
                         ansi |-> probe.ansi])

\* The two implementations are handed to get_module in the wrong order.
New_swapsImpls(t) ==
    /\ t \in callers
    /\ ~terms[t].live
    /\ t = "t2" => terms["t1"].live
    /\ LET context == ContextNew(nctx + 1)
       IN  IF platform = "windows"
           THEN \E probe \in Probes :
                   LET m == get_module(AnsiTerminal_new, WinApiTerminal_new,
                                       context, probe)
                   IN  Construct(t, m.term, m.context,
                                 [by |-> "get_module", native |-> probe.native,
                                  ansi |-> probe.ansi])
           ELSE Construct(t, AnsiTerminal_new, context, CfgChoice)

\* One process-wide Context instead of a fresh one per Terminal.
New_sharesContext(t) ==
    /\ t \in callers
    /\ ~terms[t].live
    /\ t = "t2" => terms["t1"].live
    /\ LET context == IF nctx = 0 THEN ContextNew(1) ELSE terms["t1"].context
       IN  IF platform = "windows"
           THEN \E probe \in Probes :
                   LET m == get_module(WinApiTerminal_new, AnsiTerminal_new,
                                       context, probe)
                   IN  Construct(t, m.term, m.context,
                                 [by |-> "get_module", native |-> probe.native,
                                  ansi |-> probe.ansi])
           ELSE Construct(t, AnsiTerminal_new, context, CfgChoice)

\* The Terminals are interchangeable: the caller's first one is named t1.
New(t) ==
    /\ t \in callers
    /\ ~terms[t].live
    /\ t = "t2" => terms["t1"].live
    /\ LET context == ContextNew(nctx + 1)
       IN  IF platform = "windows"
           THEN \E probe \in Probes :
                   LET m == get_module(WinApiTerminal_new, AnsiTerminal_new,
                                       context, probe)
                   IN  Construct(t, m.term, m.context,
                                 [by |-> "get_module", native |-> probe.native,
                                  ansi |-> probe.ansi])
           ELSE Construct(t, AnsiTerminal_new, context, CfgChoice)

(***************************************************************************)
(* The five public methods (lines 59-149).  Each is one step: the caller   *)
(* issues `call`, the facade sends `sent` to the backend, the console      *)
(* becomes `after` and the method returns `ret`.                           *)
(***************************************************************************)
Issue(t, call, sent, after, ret) ==
    /\ terms[t].live
    /\ Len(hist) < budget
    /\ console' = after
    /\ received' = [received EXCEPT ![t] = @ \o sent]
    /\ hist' = Append(hist, [t |-> t, call |-> call,
                             backend |-> terms[t].terminal, sent |-> sent,
                             ret |-> ret, before |-> console, after |-> after])
    /\ UNCHANGED <<callers, budget, platform, terms, nctx, built>>

\* A step like Issue that also moves the backend out of the Terminal, as
\* `self.terminal.take()` in place of `ref terminal` would.
IssueTaking(t, call, sent, after, ret) ==
    /\ terms[t].live
    /\ Len(hist) < budget
    /\ console' = after
    /\ received' = [received EXCEPT ![t] = @ \o sent]
    /\ hist' = Append(hist, [t |-> t, call |-> call,
                             backend |-> terms[t].terminal, sent |-> sent,
                             ret |-> ret, before |-> console, after |-> after])
    /\ terms' = [terms EXCEPT ![t].terminal = "None"]
    /\ UNCHANGED <<callers, budget, platform, nctx, built>>

\* Faulty variant of clear: the backend is taken out of the Option.
Clear_takesBackend(t, clear_type) ==
    IF terms[t].terminal # "None"
    THEN IssueTaking(t, ClearCall(clear_type), <<ClearCall(clear_type)>>,
                     Backend_clear(terms[t].terminal, console, clear_type), Unit)
    ELSE Issue(t, ClearCall(clear_type), <<>>, console, Unit)

\* Lines 59-63.
Clear(t, clear_type) ==
    IF terms[t].terminal # "None"
    THEN Issue(t, ClearCall(clear_type), <<ClearCall(clear_type)>>,
               Backend_clear(terms[t].terminal, console, clear_type), Unit)
    ELSE Issue(t, ClearCall(clear_type), <<>>, console, Unit)

\* Faulty variants of terminal_size.
\* Without a backend the size is queried directly instead of defaulting.
TerminalSize_queriesWhenAbsent(t) ==
    IF terms[t].terminal # "None"
    THEN Issue(t, SizeCall, <<SizeCall>>, console,
               Backend_terminal_size(terms[t].terminal, console))
    ELSE Issue(t, SizeCall, <<>>, console,
               Backend_terminal_size("Ansi", console))

\* The backend is taken out of the Option by the query.
TerminalSize_takesBackend(t) ==
    IF terms[t].terminal # "None"
    THEN IssueTaking(t, SizeCall, <<SizeCall>>, console,
                     Backend_terminal_size(terms[t].terminal, console))
    ELSE Issue(t, SizeCall, <<>>, console, <<0, 0>>)

\* Lines 80-85.
TerminalSize(t) ==
    IF terms[t].terminal # "None"
    THEN Issue(t, SizeCall, <<SizeCall>>, console,
               Backend_terminal_size(terms[t].terminal, console))
    ELSE Issue(t, SizeCall, <<>>, console, <<0, 0>>)

\* Faulty variant of scroll_up: a negative count is clamped to zero.
ScrollUp_clampsNegative(t, count) ==
    IF terms[t].terminal # "None"
    THEN Issue(t, ScrollUpCall(count), <<ScrollUpCall(Max(count, 0))>>,
               Backend_scroll_up(terms[t].terminal, console, Max(count, 0)), Unit)
    ELSE Issue(t, ScrollUpCall(count), <<>>, console, Unit)

\* Lines 102-106.
ScrollUp(t, count) ==
    IF terms[t].terminal # "None"
    THEN Issue(t, ScrollUpCall(count), <<ScrollUpCall(count)>>,
               Backend_scroll_up(terms[t].terminal, console, count), Unit)
    ELSE Issue(t, ScrollUpCall(count), <<>>, console, Unit)

\* Faulty variants of scroll_down.
\* A count of zero is answered without calling the backend.
ScrollDown_skipsZero(t, count) ==
    IF terms[t].terminal # "None" /\ count # 0
    THEN Issue(t, ScrollDownCall(count), <<ScrollDownCall(count)>>,
               Backend_scroll_down(terms[t].terminal, console, count), Unit)
    ELSE Issue(t, ScrollDownCall(count), <<>>, console, Unit)

\* The call is forwarded to the backend's scroll_up.
ScrollDown_scrollsUp(t, count) ==
    IF terms[t].terminal # "None"
    THEN Issue(t, ScrollDownCall(count), <<ScrollUpCall(count)>>,
               Backend_scroll_up(terms[t].terminal, console, count), Unit)
    ELSE Issue(t, ScrollDownCall(count), <<>>, console, Unit)

\* Lines 123-127.
ScrollDown(t, count) ==
    IF terms[t].terminal # "None"
    THEN Issue(t, ScrollDownCall(count), <<ScrollDownCall(count)>>,
               Backend_scroll_down(terms[t].terminal, console, count), Unit)
    ELSE Issue(t, ScrollDownCall(count), <<>>, console, Unit)

\* Faulty variant of set_size: width and height are forwarded swapped.
SetSize_swapsArgs(t, width, height) ==
    IF terms[t].terminal # "None"
    THEN Issue(t, SetSizeCall(width, height), <<SetSizeCall(height, width)>>,
               Backend_set_size(terms[t].terminal, console, height, width), Unit)
    ELSE Issue(t, SetSizeCall(width, height), <<>>, console, Unit)

\* Lines 144-149.
SetSize(t, width, height) ==
    IF terms[t].terminal # "None"
    THEN Issue(t, SetSizeCall(width, height), <<SetSizeCall(width, height)>>,
               Backend_set_size(terms[t].terminal, console, width, height), Unit)
    ELSE Issue(t, SetSizeCall(width, height), <<>>, console, Unit)

(***************************************************************************)
(* The environment: the user resizes the window.                           *)
(***************************************************************************)
ResizedTo == <<6, 7>>

ExternalResize ==
    /\ Len(hist) < budget
    /\ console.size # ResizedTo
    /\ console' = [console EXCEPT !.size = ResizedTo]
    /\ hist' = Append(hist, [t |-> "user", call |-> Call("resize", "-", 6, 7),
                             backend |-> "None", sent |-> <<>>, ret |-> Unit,
                             before |-> console, after |-> console'])
    /\ UNCHANGED <<callers, budget, platform, terms, nctx, built, received>>

Next ==
    \/ \E t \in Terminals : New(t)
    \/ \E t \in Terminals, clear_type \in ClearTypes : Clear(t, clear_type)
    \/ \E t \in Terminals : TerminalSize(t)
    \/ \E t \in Terminals, count \in Counts : ScrollUp(t, count)
    \/ \E t \in Terminals, count \in Counts : ScrollDown(t, count)
    \/ \E t \in Terminals, size \in Sizes : SetSize(t, size[1], size[2])
    \/ ExternalResize

Spec == Init /\ [][Next]_vars

SpecShared == InitShared /\ [][Next]_vars

(***************************************************************************)
(* Properties.                                                             *)
(***************************************************************************)
\* The facade calls, by position in the order they were issued.
Events == DOMAIN hist

\* A call on a Terminal that held a backend / held none when it was made.
Present(e) == e.t \in Terminals /\ e.backend # "None"

Absent(e) == e.t \in Terminals /\ e.backend = "None"

\* What a method returns when there is no backend.
Default(call) == IF call.op = "terminal_size" THEN <<0, 0>> ELSE Unit

\* The calls Terminal t was asked to make, in the order the caller made them.
Issued(t) ==
    LET mine == SelectSeq(hist, LAMBDA e : e.t = t)
    IN  [i \in DOMAIN mine |-> mine[i].call]

\* The effect of the backend operation that has the call's name.
BackendEffect(backend, con, call) ==
    CASE call.op = "clear" -> Backend_clear(backend, con, call.ct)
      [] call.op = "terminal_size" -> con
      [] call.op = "scroll_up" -> Backend_scroll_up(backend, con, call.x)
      [] call.op = "scroll_down" -> Backend_scroll_down(backend, con, call.x)
      [] call.op = "set_size" -> Backend_set_size(backend, con, call.x, call.y)

\* C1: on a Terminal without a backend every method can be called with any
\* argument, after any earlier calls; it calls no backend, leaves the console
\* as it was and returns its default, (0,0) for terminal_size.
C1_AbsentBackendDefaults ==
    /\ \A i \in Events :
          Absent(hist[i]) =>
             /\ hist[i].sent = <<>>
             /\ hist[i].after = hist[i].before
             /\ hist[i].ret = Default(hist[i].call)
    /\ \A t \in Terminals :
          (terms[t].live /\ terms[t].terminal = "None") =>
             /\ received[t] = <<>>
             /\ Len(hist) < budget =>
                   /\ \A clear_type \in ClearTypes : ENABLED Clear(t, clear_type)
                   /\ ENABLED TerminalSize(t)
                   /\ \A count \in Counts :
                         ENABLED ScrollUp(t, count) /\ ENABLED ScrollDown(t, count)
                   /\ \A size \in Sizes : ENABLED SetSize(t, size[1], size[2])

\* C1 witness: a Terminal without a backend was resized and scrolled and then
\* asked for its size, which came back (0,0).
C1_Witness ==
    /\ Len(hist) = 3
    /\ \A i \in Events : Absent(hist[i]) /\ hist[i].t = "t1"
    /\ hist[1].call = SetSizeCall(2, 3)
    /\ hist[2].call = ScrollUpCall(-1)
    /\ hist[3].call = SizeCall
    /\ hist[3].ret = <<0, 0>>
    /\ console.queryOk

\* C2: on a Terminal with a backend every method makes exactly one call, to
\* the backend operation of its own name with its own arguments (zero,
\* negative and extreme values included), and returns what that operation
\* returns.
C2_ForwardsUnchanged ==
    \A i \in Events :
       Present(hist[i]) =>
          /\ hist[i].sent = <<hist[i].call>>
          /\ hist[i].after =
                BackendEffect(hist[i].backend, hist[i].before, hist[i].call)
          /\ hist[i].ret =
                IF hist[i].call.op = "terminal_size"
                THEN Backend_terminal_size(hist[i].backend, hist[i].before)
                ELSE Unit

\* C2 witness: a backend was sent a negative count, a zero count and the
\* extreme width and height, each as the caller gave it.
C2_Witness ==
    /\ Len(hist) = 3
    /\ \A i \in Events : Present(hist[i])
    /\ hist[1].sent = <<ScrollUpCall(-1)>>
    /\ hist[2].sent = <<ScrollDownCall(0)>>
    /\ hist[3].sent = <<SetSizeCall(I16Min, I16Max)>>
    /\ received["t1"] = <<ScrollUpCall(-1), ScrollDownCall(0),
                          SetSizeCall(I16Min, I16Max)>>

\* C3: the backend of a Terminal is chosen once, when it is constructed; no
\* later step chooses again or changes the backend it holds, its presence
\* or its absence.
C3_SelectedOnce ==
    /\ [](\A t \in Terminals :
             Len(built[t]) = IF terms[t].live THEN 1 ELSE 0)
    /\ [][\A t \in Terminals :
             terms[t].live =>
                /\ terms'[t].live
                /\ terms'[t].terminal = terms[t].terminal
                /\ built'[t] = built[t]]_vars

\* C3 witness: a constructed Terminal has served as many calls as the run
\* allows, a size query first and a resize last.
C3_Witness ==
    /\ Len(hist) = budget
    /\ \A i \in Events : hist[i].t = "t1"
    /\ hist[1].call.op = "terminal_size"
    /\ hist[Len(hist)].call.op = "set_size"
    /\ Len(built["t1"]) = 1
    /\ terms["t1"].terminal = hist[1].backend

\* C4: without native console support every constructed Terminal holds the
\* ANSI backend, chosen by the build alone: the selector is not run and the
\* Context acquires nothing.
C4_AnsiWithoutNativeConsole ==
    platform = "other" =>
       /\ \A t \in Terminals :
             terms[t].live =>
                /\ terms[t].terminal = "Ansi"
                /\ built[t] = <<CfgChoice>>
                /\ terms[t].context.acquisitions = 0
                /\ ~terms[t].context.cached
       /\ \A i \in Events : ~Absent(hist[i])

\* C4 witness: such a Terminal forwarded clear(CurrentLine) to ANSI.
C4_Witness ==
    /\ platform = "other"
    /\ terms["t1"].live
    /\ Len(hist) >= 1
    /\ hist[1].backend = "Ansi"
    /\ hist[1].sent = <<ClearCall("CurrentLine")>>
    /\ "CurrentLine" \in console.erased

\* C5: with native console support the Terminal holds the native backend
\* when it can be built and ANSI is not preferred, the ANSI backend when the
\* native one cannot be built or ANSI is preferred, and none only when
\* neither can be built.
C5_SelectorDecision ==
    platform = "windows" =>
       \A t \in Terminals :
          terms[t].live =>
             LET how == built[t][1]
                 ansiUsable == how.ansi # "unavailable"
                 ansiPreferred == how.ansi = "preferred"
             IN  /\ how.by = "get_module"
                 /\ (how.native /\ ~ansiPreferred) =>
                       terms[t].terminal = "WinApi"
                 /\ ((~how.native \/ ansiPreferred) /\ ansiUsable) =>
                       terms[t].terminal = "Ansi"
                 /\ terms[t].terminal = "None" <=> (~how.native /\ ~ansiUsable)
                 /\ terms[t].terminal \in {"WinApi", "Ansi", "None"}

\* C5 witness: the native backend could be built, but ANSI was preferred and
\* is the backend held.
C5_Witness ==
    /\ platform = "windows"
    /\ terms["t1"].live
    /\ built["t1"][1].native
    /\ built["t1"][1].ansi = "preferred"
    /\ terms["t1"].terminal = "Ansi"
    /\ Len(hist) >= 1

\* C6: the calls a backend has received are the calls issued on its
\* Terminal, in the same order, at every moment: none is reordered, merged,
\* dropped, repeated or held back until after the method returns.
C6_CallerOrder ==
    \A t \in Terminals :
       received[t] = IF terms[t].terminal # "None" THEN Issued(t) ELSE <<>>

\* C6 witness: three different calls reached the backend in issue order.
C6_Witness ==
    /\ terms["t1"].terminal # "None"
    /\ Issued("t1") = <<ScrollDownCall(2), ClearCall("All"), ScrollUpCall(2)>>
    /\ received["t1"] = <<ScrollDownCall(2), ClearCall("All"), ScrollUpCall(2)>>

\* C7: terminal_size changes neither the console nor the Terminal, and when
\* it directly follows a terminal_size on the same Terminal (no set_size and
\* no resize by the user in between) it returns the same value.
C7_SizeQueryIdempotent ==
    [][(Len(hist') = Len(hist) + 1 /\ Last(hist').call.op = "terminal_size") =>
          /\ terms' = terms
          /\ console' = console
          /\ (/\ hist # <<>>
              /\ Last(hist).call.op = "terminal_size"
              /\ Last(hist).t = Last(hist').t) =>
                 Last(hist').ret = Last(hist).ret]_vars

\* C7 witness: two queries in a row on a Terminal with a backend returned
\* the console's size both times.
C7_Witness ==
    /\ Len(hist) >= 2
    /\ Present(hist[1]) /\ hist[1].call.op = "terminal_size"
    /\ hist[2].t = hist[1].t /\ hist[2].call.op = "terminal_size"
    /\ hist[1].ret = InitSize
    /\ hist[2].ret = InitSize

\* A scroll the backend did not carry out because the buffer has no room
\* for it (a negative count the ANSI backend ignores is not one).
Refused(e) ==
    /\ e.call.x # 0
    /\ e.after.top = e.before.top
    /\ ~(e.call.x < 0 /\ e.backend = "Ansi")

\* scroll_down(n) directly after scroll_up(n) on the same Terminal.
RoundTrip(i) ==
    /\ i + 1 \in Events
    /\ Present(hist[i])
    /\ hist[i].call.op = "scroll_up"
    /\ hist[i + 1].t = hist[i].t
    /\ hist[i + 1].call = ScrollDownCall(hist[i].call.x)

ResizeThenQuery(i) ==
    /\ i + 1 \in Events
    /\ Present(hist[i])
    /\ hist[i].call.op = "set_size"
    /\ hist[i + 1].t = hist[i].t
    /\ hist[i + 1].call.op = "terminal_size"

\* The platform can give exactly the requested size.
Honoured(call) == call.x >= MinSize[1] /\ call.y >= MinSize[2]

\* What C9 promises of the size returned after the request `call`.
AsRequestedOrClamped(call, size) ==
    IF Honoured(call)
    THEN size = <<call.x, call.y>>
    ELSE size[1] >= MinSize[1] /\ size[2] >= MinSize[2]

\* C9 as stated: set_size(w,h) then terminal_size returns (w,h) when the
\* platform honours the request and a clamped value of at least the
\* platform's minimum otherwise.
C9_SizeAfterResize ==
    \A i \in Events :
       ResizeThenQuery(i) =>
          AsRequestedOrClamped(hist[i].call, hist[i + 1].ret)

\* C9 amended: the same, except that (0,0) is returned when the backend
\* cannot determine the size.
C9_SizeAfterResizeOrUnknown ==
    \A i \in Events :
       ResizeThenQuery(i) =>
          IF hist[i + 1].before.queryOk
          THEN AsRequestedOrClamped(hist[i].call, hist[i + 1].ret)
          ELSE hist[i + 1].ret = <<0, 0>>

\* C9 witness: a request below the minimum was clamped, then a request the
\* platform honours was granted, and the query returned it.
C9_Witness ==
    /\ Len(hist) = 3
    /\ hist[1].call = SetSizeCall(0, 0)
    /\ hist[1].after.size = MinSize
    /\ ResizeThenQuery(2)
    /\ hist[2].call = SetSizeCall(2, 3)
    /\ hist[3].ret = <<2, 3>>

\* The Terminals constructed so far.
Live == {t \in Terminals : terms[t].live}

\* C10: the Context of a Terminal acquires its handle at most once, however
\* often it is looked up; every Terminal::new builds a Context of its own,
\* and no two Terminals hold the same one.
C10_ContextPerTerminal ==
    /\ \A t \in Live :
          /\ terms[t].context.acquisitions <= 1
          /\ terms[t].context.cached <=> terms[t].context.acquisitions = 1
          /\ terms[t].context.id \in 1..nctx
          /\ \A u \in Live \ {t} : terms[u].context.id # terms[t].context.id
    /\ nctx = Cardinality(Live)

\* C10 witness: two Terminals, the first holding the native backend (whose
\* construction looks the handle up twice), each with its own Context and
\* one acquisition, and a call made.
C10_Witness ==
    /\ Live = Terminals
    /\ terms["t1"].terminal = "WinApi"
    /\ terms["t1"].context.acquisitions = 1
    /\ terms["t2"].context.acquisitions = 1
    /\ terms["t1"].context.id # terms["t2"].context.id
    /\ Len(hist) = 1

====
